---- MODULE Spec2Model ----
(***************************************************************************)
(* A model of zipline-fmp-ingest: the retrying API client (fmp.py), the    *)
(* history fetch (fmp.py) and the reshaping / ingestion stage (ingest.py). *)
(*                                                                         *)
(* Python values are encoded as follows.                                   *)
(*   - a local name that is not bound holds the marker "UNBOUND"; reading  *)
(*     it raises UnboundLocalError;                                        *)
(*   - `except Exception as str_error` unbinds str_error when the except   *)
(*     clause ends (Python 3 language reference, "The try statement");     *)
(*     fmp.py uses f-strings, so it only runs on Python 3;                 *)
(*   - an API response is a record [kind, historical]: kind "empty" is a   *)
(*     falsy response, "hist" a mapping with a 'historical' entry and      *)
(*     "nohist" a non-empty mapping without one.                           *)
(***************************************************************************)
EXTENDS Integers, Sequences, FiniteSets, TLC

\* ------------------------------------------------------------------ bounds
MaxRetries == 3
MaxSymbols == 3
MaxDate == 3
MaxRows == 3

\* --------------------------------------------------------- program constants
FMP_API_RETRIES == 2
FMP_API_SLEEP_TIME == 70
FMP_API_KEY == "yourkeyhere"

Symbols == {"QQQ", "SPY"}

\* The order pandas sorts the symbols in.
SymRank(s) == IF s = "QQQ" THEN 1 ELSE 2

\* A cell pandas fills with NaN, and a key a vendor record does not have.
NaN == 0 - 1
Absent == 0 - 2

\* The exceptions the API method may raise, and the ones the interpreter raises.
MethodErrors == {"ConnectionError", "HTTPError"}
NoError == "NoError"

\* A vendor record of one day.
Rec(d, c, a, v) == [date |-> d, close |-> c, adjClose |-> a, volume |-> v]

\* The 'historical' payloads the vendor answers with: a gap (day 2 missing),
\* a day returned twice, an extra non-session day (3), unordered days, no day.
Historicals ==
    { <<>>,
      <<Rec(1, 10, 11, Absent)>>,
      <<Rec(2, 20, 21, 500), Rec(1, 10, 11, Absent)>>,
      <<Rec(1, 10, 11, Absent), Rec(1, 12, 13, Absent)>>,
      <<Rec(3, 30, 31, 700), Rec(2, 20, 21, 500)>> }

EmptyResponse == [kind |-> "empty", historical |-> <<>>]
Responses ==
    {EmptyResponse, [kind |-> "nohist", historical |-> <<>>]}
        \cup {[kind |-> "hist", historical |-> h] : h \in Historicals}
UnboundRes == [kind |-> "UNBOUND", historical |-> <<>>]

VARIABLES
    \* ---- call_fmp
    cpc,          \* position in call_fmp
    params,       \* the params mapping
    retries,
    sleep_time,
    x,            \* the loop variable
    res,          \* local res
    str_error,    \* local str_error
    calls,        \* what method was invoked with and what it did, in order
    sleeps,       \* the arguments of sleep(), in order
    logged,       \* the errors passed to logging.error, in order
    sleptAfter,   \* for each sleep, the number of invocations made before it
    result,       \* what call_fmp returned
    raised,       \* what call_fmp raised
    \* ---- get_stocks_history and ingest_fmp
    pc,           \* position in ingest_fmp / get_stocks_history
    stocks,       \* the symbol list
    end_ts,       \* pd.Timestamp.now(), in days
    ix,           \* the number of symbols get_stocks_history is done with
    hist,         \* the dict get_stocks_history builds, in insertion order
    raw_data,     \* what get_stocks_history returned
    raw_data_df,  \* the flattened table
    asset_metadata,
    asset_db,     \* the calls of asset_db_writer.write
    daily_bars,   \* the calls of daily_bar_writer.write
    adjustments,  \* the calls of adjustment_writer.write
    error,        \* the exception that left ingest_fmp
    \* ---- the reshaping functions, applied on their own
    fn_op,        \* the function that was applied
    fn_table,     \* its input table
    fn_symbol_map,
    fn_start,
    fn_end,
    fn_exchange,
    fn_out        \* what it returned

callVars == <<cpc, params, retries, sleep_time, x, res, str_error, calls,
              sleeps, logged, sleptAfter, result, raised>>

ingestVars == <<pc, stocks, end_ts, ix, hist, raw_data, raw_data_df,
                asset_metadata, asset_db, daily_bars, adjustments, error>>

fnVars == <<fn_op, fn_table, fn_symbol_map, fn_start, fn_end, fn_exchange, fn_out>>

vars == <<callVars, ingestVars, fnVars>>

\* ------------------------------------------------------------------ call_fmp

Truthy(e) == e \notin {"None", "UNBOUND"}

\* fmp.py 36-37: the default API key is put in when there is none.
CallEntry ==
    /\ cpc = "entry"
    /\ params' = IF params.apikey = "" THEN [params EXCEPT !.apikey = FMP_API_KEY]
                                       ELSE params
    /\ x' = 0 - 1
    /\ cpc' = "for"
    /\ UNCHANGED <<ingestVars, fnVars>>
    /\ UNCHANGED <<retries, sleep_time, res, str_error, calls, sleeps, logged,
                   sleptAfter, result, raised>>

RangeLenOneMore(n) == IF n > 0 THEN n + 1 ELSE 1

\* The number of iterations range(0, retries) has.
RangeLen(n) == IF n > 0 THEN n ELSE 0

\* fmp.py 39: the next element of range(0, retries), or the end of the loop.
ForNext ==
    /\ cpc = "for"
    /\ IF x + 1 < RangeLen(retries)
          THEN x' = x + 1 /\ cpc' = "try"
          ELSE x' = x /\ cpc' = "return"
    /\ UNCHANGED <<ingestVars, fnVars>>
    /\ UNCHANGED <<params, retries, sleep_time, res, str_error, calls, sleeps,
                   logged, sleptAfter, result, raised>>

\* The value str_error holds once the except clause has ended.
AfterExcept(e) == "UNBOUND"

\* fmp.py 40-42: method returns.
TryReturns ==
    /\ cpc = "try"
    /\ \E r \in Responses :
          /\ res' = r
          /\ calls' = Append(calls, [params |-> params, raised |-> NoError, returned |-> r])
    /\ str_error' = "None"
    /\ cpc' = "check"
    /\ UNCHANGED <<ingestVars, fnVars>>
    /\ UNCHANGED <<params, retries, sleep_time, x, sleeps, logged, sleptAfter,
                   result, raised>>

\* fmp.py 41, 43-45: method raises.
TryRaises ==
    /\ cpc = "try"
    /\ \E e \in MethodErrors :
          /\ calls' = Append(calls, [params |-> params, raised |-> e,
                                     returned |-> UnboundRes])
          /\ logged' = Append(logged, e)
          /\ str_error' = AfterExcept(e)
    /\ cpc' = "check"
    /\ UNCHANGED <<ingestVars, fnVars>>
    /\ UNCHANGED <<params, retries, sleep_time, x, res, sleeps, sleptAfter,
                   result, raised>>

AfterTryInverted(err, i, n) ==
    IF err = "UNBOUND" THEN "unbound"
    ELSE IF ~Truthy(err) THEN (IF i < n THEN "sleep" ELSE "raise")
    ELSE "break"

\* What fmp.py 47-53 does after the try statement.
AfterTry(err, i, n) ==
    IF err = "UNBOUND" THEN "unbound"
    ELSE IF Truthy(err) THEN (IF i < n THEN "sleep" ELSE "raise")
    ELSE "break"

\* fmp.py 47-53.
Check ==
    /\ cpc = "check"
    /\ LET todo == AfterTry(str_error, x, retries) IN
          /\ cpc' = CASE todo = "unbound" -> "raised"
                      [] todo = "sleep" -> "for"
                      [] todo = "raise" -> "raised"
                      [] OTHER -> "return"
          /\ raised' = CASE todo = "unbound" -> "UnboundLocalError"
                         [] todo = "raise" -> str_error
                         [] OTHER -> raised
          /\ sleeps' = IF todo = "sleep" THEN Append(sleeps, sleep_time) ELSE sleeps
          /\ sleptAfter' = IF todo = "sleep" THEN Append(sleptAfter, Len(calls))
                                             ELSE sleptAfter
    /\ UNCHANGED <<ingestVars, fnVars>>
    /\ UNCHANGED <<params, retries, sleep_time, x, res, str_error, calls, logged,
                   result>>

\* fmp.py 55.
Return ==
    /\ cpc = "return"
    /\ IF res = UnboundRes
          THEN cpc' = "raised" /\ raised' = "UnboundLocalError" /\ result' = result
          ELSE cpc' = "returned" /\ result' = res /\ raised' = raised
    /\ UNCHANGED <<ingestVars, fnVars>>
    /\ UNCHANGED <<params, retries, sleep_time, x, res, str_error, calls, sleeps,
                   logged, sleptAfter>>

CallStep == CallEntry \/ ForNext \/ TryReturns \/ TryRaises \/ Check \/ Return

\* The locals of a call of call_fmp that has just been entered.
EnterCall(p, n, t) ==
    /\ cpc' = "entry"
    /\ params' = p
    /\ retries' = n
    /\ sleep_time' = t
    /\ x' = 0 - 1
    /\ res' = UnboundRes
    /\ str_error' = "UNBOUND"
    /\ result' = UnboundRes
    /\ raised' = NoError

\* --------------------------------------------------------------- the tables
\* A table is a sequence of rows [date, symbol, close, adjClose, volume].

Row(d, s, c, a, v) == [date |-> d, symbol |-> s, close |-> c, adjClose |-> a, volume |-> v]

SameIndex(r, q) == r.date = q.date /\ r.symbol = q.symbol

\* The order of the (date, symbol) index.
IndexLess(r, q) ==
    \/ r.date < q.date
    \/ r.date = q.date /\ SymRank(r.symbol) < SymRank(q.symbol)

\* r put into the sorted table t, after the rows that are not greater.
RECURSIVE InsertSorted(_, _)
InsertSorted(r, t) ==
    IF t = <<>> THEN <<r>>
    ELSE IF IndexLess(r, Head(t)) THEN <<r>> \o t
    ELSE <<Head(t)>> \o InsertSorted(r, Tail(t))

\* ingest.py 67: sort_index, a stable sort on the index.
RECURSIVE SortIndex(_)
SortIndex(t) ==
    IF t = <<>> THEN <<>>
    ELSE InsertSorted(t[Len(t)], SortIndex(SubSeq(t, 1, Len(t) - 1)))

\* index.duplicated(keep='first') at position i.
Duplicated(t, i) == \E j \in 1..(i - 1) : SameIndex(t[j], t[i])

\* The rows of t from position i on whose index is no duplicate.
RECURSIVE NotDuplicatedFrom(_, _)
NotDuplicatedFrom(t, i) ==
    IF i > Len(t) THEN <<>>
    ELSE (IF Duplicated(t, i) THEN <<>> ELSE <<t[i]>>) \o NotDuplicatedFrom(t, i + 1)

RECURSIVE DuplicatedFrom(_, _)
DuplicatedFrom(t, i) ==
    IF i > Len(t) THEN <<>>
    ELSE (IF Duplicated(t, i) THEN <<t[i]>> ELSE <<>>) \o DuplicatedFrom(t, i + 1)

KeepDuplicated(t) == DuplicatedFrom(t, 1)

\* ingest.py 70-71: price_history[~price_history.index.duplicated(keep='first')]
DropDuplicated(t) == NotDuplicatedFrom(t, 1)

\* The trading calendar: every third day is no session.
TradingDays == {d \in 1..MaxDate : d % 3 # 0}

\* The elements of the set of days S in increasing order.
RECURSIVE Ascending(_)
Ascending(S) ==
    IF S = {} THEN <<>>
    ELSE LET m == CHOOSE d \in S : \A e \in S : d <= e
         IN <<m>> \o Ascending(S \ {m})

\* ingest.py 63: calendar.sessions_in_range(start, end)
SessionsInRange(start, end) == Ascending({d \in TradingDays : start <= d /\ d <= end})

\* ingest.py 73: [(date, symbol) for date in sessions for symbol in symbol_map]
Indices(sessions, symbol_map) ==
    [k \in 1..(Len(sessions) * Len(symbol_map)) |->
        [date |-> sessions[((k - 1) \div Len(symbol_map)) + 1],
         symbol |-> symbol_map[((k - 1) % Len(symbol_map)) + 1]]]

RECURSIVE Present(_, _)
Present(t, indices) ==
    IF indices = <<>> THEN <<>>
    ELSE (IF \E j \in 1..Len(t) : SameIndex(t[j], Head(indices))
             THEN <<t[CHOOSE j \in 1..Len(t) : SameIndex(t[j], Head(indices))]>>
             ELSE <<>>) \o Present(t, Tail(indices))

ReindexPresentOnly(t, indices) == Present(t, indices)

\* ingest.py 74: reindex; a label the table lacks gets a row of NaN.
Reindex(t, indices) ==
    [k \in 1..Len(indices) |->
        IF \E j \in 1..Len(t) : SameIndex(t[j], indices[k])
           THEN t[CHOOSE j \in 1..Len(t) :
                    /\ SameIndex(t[j], indices[k])
                    /\ \A h \in 1..(j - 1) : ~SameIndex(t[h], indices[k])]
           ELSE Row(indices[k].date, indices[k].symbol, NaN, NaN, NaN)]

\* ingest.py 54-76
SetDatesForCalendar(price_history, start, end, symbol_map) ==
    LET sessions == SessionsInRange(start, end)
        sorted == SortIndex(price_history)
        deduped == DropDuplicated(sorted)
        indices == Indices(sessions, symbol_map)
    IN Reindex(deduped, indices)

\* The table has a volume column when a record it was built from has the key.
HasVolume(t) == \E i \in 1..Len(t) : t[i].volume # Absent

\* The cell of a record in a column: NaN when the record lacks the key.
Cell(v) == IF v = Absent THEN NaN ELSE v

\* ingest.py 36-51
FormatPriceHistory(price_history, hasVolume) ==
    [k \in 1..Len(price_history) |->
        [date |-> price_history[k].date,
         symbol |-> price_history[k].symbol,
         close |-> price_history[k].adjClose,
         volume |-> IF hasVolume THEN Cell(price_history[k].volume) ELSE 0]]

\* data.xs(symbol, level="symbol")
RECURSIVE Xs(_, _)
Xs(t, s) ==
    IF t = <<>> THEN <<>>
    ELSE (IF Head(t).symbol = s THEN <<Head(t)>> ELSE <<>>) \o Xs(Tail(t), s)

\* ingest.py 95-101
ParsePricingAndVol(data, start, end, symbol_map) ==
    LET aligned == SetDatesForCalendar(data, start, end, symbol_map)
        formatted == FormatPriceHistory(aligned, HasVolume(data))
    IN [k \in 1..Len(symbol_map) |->
            [asset_id |-> k - 1, bars |-> Xs(formatted, symbol_map[k])]]

AMinIsLatest(S) == CHOOSE d \in S : \A e \in S : e <= d

\* np.min and np.max of a group's dates.
AMin(S) == CHOOSE d \in S : \A e \in S : d <= e
AMax(S) == CHOOSE d \in S : \A e \in S : e <= d

\* The symbols of the set S in the order groupby puts them in.
RECURSIVE BySymbol(_)
BySymbol(S) ==
    IF S = {} THEN <<>>
    ELSE LET m == CHOOSE s \in S : \A u \in S : SymRank(s) <= SymRank(u)
         IN <<m>> \o BySymbol(S \ {m})

DatesOf(data, s) == {data[i].date : i \in {j \in 1..Len(data) : data[j].symbol = s}}

\* ingest.py 18-33
GenAssetMetadata(data, exchange) ==
    LET groups == BySymbol({data[i].symbol : i \in 1..Len(data)})
    IN [k \in 1..Len(groups) |->
            [symbol |-> groups[k],
             start_date |-> AMin(DatesOf(data, groups[k])),
             end_date |-> AMax(DatesOf(data, groups[k])),
             exchange |-> exchange,
             auto_close_date |-> AMax(DatesOf(data, groups[k])) + 1]]

\* The rows convert_price_to_df makes of one symbol's records (ingest.py 86-90).
SymbolFrame(symbol, price_history) ==
    [k \in 1..Len(price_history) |->
        Row(price_history[k].date, symbol, price_history[k].close,
            price_history[k].adjClose, price_history[k].volume)]

\* ingest.py 79-92: the frames of the symbols, appended in the order of the keys.
RECURSIVE ConvertPriceToDf(_)
ConvertPriceToDf(raw_price) ==
    IF raw_price = <<>> THEN <<>>
    ELSE SymbolFrame(Head(raw_price).symbol, Head(raw_price).historical)
            \o ConvertPriceToDf(Tail(raw_price))

\* hist[symbol] = price_history on a dict that keeps the order of insertion.
DictSet(d, symbol, price_history) ==
    IF \E i \in 1..Len(d) : d[i].symbol = symbol
       THEN [i \in 1..Len(d) |->
                IF d[i].symbol = symbol
                   THEN [symbol |-> symbol, historical |-> price_history]
                   ELSE d[i]]
       ELSE Append(d, [symbol |-> symbol, historical |-> price_history])

\* ------------------------------------------- get_stocks_history, ingest_fmp

Exchange == <<"US Equities", "NYSE", "US">>
Period == 100

\* ingest.py 117-128, fmp.py 82-84: ingest_fmp calls get_stocks_history.
IngestFmp ==
    /\ pc = "start"
    /\ pc' = "gsh_for"
    /\ ix' = 0
    /\ hist' = <<>>
    /\ UNCHANGED <<callVars, fnVars, stocks, end_ts, raw_data, raw_data_df,
                   asset_metadata, asset_db, daily_bars, adjustments, error>>

\* fmp.py 85-91: the next symbol is fetched; fmp.py 97 when there is none left.
GshNext ==
    /\ pc = "gsh_for"
    /\ IF ix < Len(stocks)
          THEN /\ EnterCall([apikey |-> "", symbol |-> stocks[ix + 1]],
                            FMP_API_RETRIES, FMP_API_SLEEP_TIME)
               /\ pc' = "gsh_call"
               /\ raw_data' = raw_data
          ELSE /\ pc' = "convert"
               /\ raw_data' = hist
               /\ UNCHANGED <<cpc, params, retries, sleep_time, x, res, str_error,
                              result, raised>>
    /\ UNCHANGED <<calls, sleeps, logged, sleptAfter, fnVars, stocks, end_ts, ix,
                   hist, raw_data_df, asset_metadata, asset_db, daily_bars,
                   adjustments, error>>

OnResponseNoSkip(r) ==
    IF r.kind = "nohist" THEN "KeyError" ELSE "store"

\* What fmp.py 92-95 does with the response call_fmp returned.
OnResponse(r) ==
    IF r.kind = "empty" THEN "continue"
    ELSE IF r.kind = "hist" THEN "store"
    ELSE "KeyError"

\* fmp.py 91-95: call_fmp returned.
GshReturned ==
    /\ pc = "gsh_call"
    /\ cpc = "returned"
    /\ cpc' = "idle"
    /\ LET todo == OnResponse(result) IN
          /\ hist' = IF todo = "store"
                        THEN DictSet(hist, stocks[ix + 1], result.historical)
                        ELSE hist
          /\ ix' = IF todo = "KeyError" THEN ix ELSE ix + 1
          /\ pc' = IF todo = "KeyError" THEN "raised" ELSE "gsh_for"
          /\ error' = IF todo = "KeyError" THEN "KeyError" ELSE error
    /\ UNCHANGED <<params, retries, sleep_time, x, res, str_error, calls, sleeps,
                   logged, sleptAfter, result, raised, fnVars, stocks, end_ts,
                   raw_data, raw_data_df, asset_metadata, asset_db, daily_bars,
                   adjustments>>

OnCallFmpRaisedSkip(e, i) == [pc |-> "gsh_for", error |-> NoError, ix |-> i + 1]

\* Where an exception of call_fmp takes the run: fmp.py 91 and ingest.py 127-128
\* are in no try statement, so it leaves get_stocks_history and ingest_fmp.
OnCallFmpRaised(e, i) == [pc |-> "raised", error |-> e, ix |-> i]

\* fmp.py 91, ingest.py 127: call_fmp raised.
GshRaised ==
    /\ pc = "gsh_call"
    /\ cpc = "raised"
    /\ cpc' = "idle"
    /\ pc' = OnCallFmpRaised(raised, ix).pc
    /\ error' = OnCallFmpRaised(raised, ix).error
    /\ ix' = OnCallFmpRaised(raised, ix).ix
    /\ UNCHANGED <<params, retries, sleep_time, x, res, str_error, calls, sleeps,
                   logged, sleptAfter, result, raised, fnVars, stocks, end_ts,
                   hist, raw_data, raw_data_df, asset_metadata, asset_db,
                   daily_bars, adjustments>>

\* ingest.py 129: a symbol without records has no date column to convert.
Convert ==
    /\ pc = "convert"
    /\ IF \E i \in 1..Len(raw_data) : raw_data[i].historical = <<>>
          THEN pc' = "raised" /\ error' = "AttributeError"
                              /\ raw_data_df' = raw_data_df
          ELSE pc' = "metadata" /\ error' = error
                                /\ raw_data_df' = ConvertPriceToDf(raw_data)
    /\ UNCHANGED <<callVars, fnVars, stocks, end_ts, ix, hist, raw_data,
                   asset_metadata, asset_db, daily_bars, adjustments>>

\* ingest.py 132-133: a table made of no symbol has no columns to select.
GenMetadata ==
    /\ pc = "metadata"
    /\ IF raw_data = <<>>
          THEN pc' = "raised" /\ error' = "KeyError"
                              /\ asset_metadata' = asset_metadata
          ELSE pc' = "asset_write" /\ error' = error
                  /\ asset_metadata' = GenAssetMetadata(raw_data_df, Exchange[1])
    /\ UNCHANGED <<callVars, fnVars, stocks, end_ts, ix, hist, raw_data,
                   raw_data_df, asset_db, daily_bars, adjustments>>

\* ingest.py 134-138
AssetWrite ==
    /\ pc = "asset_write"
    /\ asset_db' = Append(asset_db, [equities |-> asset_metadata,
                                     exchanges |-> <<Exchange>>])
    /\ pc' = "bar_write"
    /\ UNCHANGED <<callVars, fnVars, stocks, end_ts, ix, hist, raw_data,
                   raw_data_df, asset_metadata, daily_bars, adjustments, error>>

\* The symbol column of the asset metadata (ingest.py 141).
SymbolMap(meta) == [k \in 1..Len(meta) |-> meta[k].symbol]

\* ingest.py 141-147: the writer consumes the generator.
BarWrite ==
    /\ pc = "bar_write"
    /\ daily_bars' = Append(daily_bars,
            ParsePricingAndVol(raw_data_df, end_ts - Period, end_ts,
                               SymbolMap(asset_metadata)))
    /\ pc' = "adj_write"
    /\ UNCHANGED <<callVars, fnVars, stocks, end_ts, ix, hist, raw_data,
                   raw_data_df, asset_metadata, asset_db, adjustments, error>>

FrameOfData(data) == data

\* The rows of pd.DataFrame(columns=[...]) (ingest.py 150-152).
EmptyFrame(data) == <<>>

\* ingest.py 149-156
AdjWrite ==
    /\ pc = "adj_write"
    /\ adjustments' = Append(adjustments, [splits |-> EmptyFrame(raw_data_df),
                                           dividends |-> EmptyFrame(raw_data_df)])
    /\ pc' = "done"
    /\ UNCHANGED <<callVars, fnVars, stocks, end_ts, ix, hist, raw_data,
                   raw_data_df, asset_metadata, asset_db, daily_bars, error>>

\* ------------------------------------------- the reshaping functions alone

Prices == {10, 12}

Rows == {Row(d, s, c, c + 1, Absent) : d \in 1..MaxDate, s \in Symbols, c \in Prices}

Tables == UNION {[1..n -> Rows] : n \in 0..MaxRows}

\* The symbol maps gen_asset_metadata makes: distinct symbols in their order.
SymbolMaps == {BySymbol(S) : S \in SUBSET Symbols}

ApplySetDates ==
    /\ fn_op = "none"
    /\ \E m \in SymbolMaps, s \in 1..MaxDate, e \in 1..MaxDate :
          /\ s <= e
          /\ fn_symbol_map' = m
          /\ fn_start' = s
          /\ fn_end' = e
          /\ fn_out' = SetDatesForCalendar(fn_table, s, e, m)
    /\ fn_op' = "set_dates"
    /\ UNCHANGED <<callVars, ingestVars, fn_table, fn_exchange>>

ApplyGenAssetMetadata ==
    /\ fn_op = "none"
    /\ \E e \in {Exchange[1], Exchange[2]} :
          /\ fn_exchange' = e
          /\ fn_out' = GenAssetMetadata(fn_table, e)
    /\ fn_op' = "metadata"
    /\ UNCHANGED <<callVars, ingestVars, fn_table, fn_symbol_map, fn_start, fn_end>>

\* The deduplication, run once and run again on its own result.
ApplyDedup ==
    /\ fn_op = "none"
    /\ fn_out' = [once |-> DropDuplicated(fn_table),
                  twice |-> DropDuplicated(DropDuplicated(fn_table))]
    /\ fn_op' = "dedup"
    /\ UNCHANGED <<callVars, ingestVars, fn_table, fn_symbol_map, fn_start, fn_end,
                   fn_exchange>>

\* ------------------------------------------------------- the specifications

CallIdle ==
    /\ cpc = "idle"
    /\ params = [apikey |-> "", symbol |-> "QQQ"]
    /\ retries = FMP_API_RETRIES
    /\ sleep_time = FMP_API_SLEEP_TIME
    /\ x = 0 - 1
    /\ res = UnboundRes
    /\ str_error = "UNBOUND"
    /\ calls = <<>>
    /\ sleeps = <<>>
    /\ logged = <<>>
    /\ sleptAfter = <<>>
    /\ result = UnboundRes
    /\ raised = NoError

IngestIdle ==
    /\ stocks = <<>>
    /\ end_ts = 0
    /\ ix = 0
    /\ hist = <<>>
    /\ raw_data = <<>>
    /\ raw_data_df = <<>>
    /\ asset_metadata = <<>>
    /\ asset_db = <<>>
    /\ daily_bars = <<>>
    /\ adjustments = <<>>
    /\ error = NoError

FnIdle ==
    /\ fn_op = "off"
    /\ fn_table = <<>>
    /\ fn_symbol_map = <<>>
    /\ fn_start = 0
    /\ fn_end = 0
    /\ fn_exchange = ""
    /\ fn_out = <<>>

\* A call of call_fmp with any arguments.
InitCall ==
    /\ cpc = "entry"
    /\ params \in [apikey : {"", "mykey"}, symbol : Symbols]
    /\ retries \in 0..MaxRetries
    /\ sleep_time \in {0, FMP_API_SLEEP_TIME}
    /\ x = 0 - 1
    /\ res = UnboundRes
    /\ str_error = "UNBOUND"
    /\ calls = <<>>
    /\ sleeps = <<>>
    /\ logged = <<>>
    /\ sleptAfter = <<>>
    /\ result = UnboundRes
    /\ raised = NoError
    /\ pc = "off"
    /\ IngestIdle
    /\ FnIdle

NextCall == CallStep

SpecCall == InitCall /\ [][NextCall]_vars

\* A run of ingest_fmp on a list of stocks.
Init ==
    /\ CallIdle
    /\ pc = "start"
    /\ stocks \in UNION {[1..n -> Symbols] : n \in 0..MaxSymbols}
    /\ end_ts \in 1..MaxDate
    /\ ix = 0
    /\ hist = <<>>
    /\ raw_data = <<>>
    /\ raw_data_df = <<>>
    /\ asset_metadata = <<>>
    /\ asset_db = <<>>
    /\ daily_bars = <<>>
    /\ adjustments = <<>>
    /\ error = NoError
    /\ FnIdle

Next ==
    \/ CallStep
    \/ IngestFmp \/ GshNext \/ GshReturned \/ GshRaised
    \/ Convert \/ GenMetadata \/ AssetWrite \/ BarWrite \/ AdjWrite

Spec == Init /\ [][Next]_vars

\* One of the reshaping functions applied to any table.
InitTable ==
    /\ CallIdle
    /\ pc = "off"
    /\ IngestIdle
    /\ fn_op = "none"
    /\ fn_table \in Tables
    /\ fn_symbol_map = <<>>
    /\ fn_start = 0
    /\ fn_end = 0
    /\ fn_exchange = ""
    /\ fn_out = <<>>

NextTable == ApplySetDates \/ ApplyGenAssetMetadata \/ ApplyDedup

SpecTable == InitTable /\ [][NextTable]_vars

\* ------------------------------------------------------------- the claims

Ended == cpc \in {"returned", "raised"}

Failed(i) == calls[i].raised # NoError

\* C1: when every invocation of method raised (retries >= 1), call_fmp ends by
\* raising the exception of the last of its `retries` invocations.
C1_ReraisesLastException ==
    (Ended /\ retries >= 1 /\ calls # <<>> /\ \A i \in 1..Len(calls) : Failed(i))
        => /\ cpc = "raised"
           /\ Len(calls) = retries
           /\ raised = calls[Len(calls)].raised

\* C2: method is never invoked more than `retries` times, for any retries >= 0.
C2_AtMostRetriesInvocations == retries >= 0 => Len(calls) <= retries

C2_Witness ==
    /\ cpc = "raised"
    /\ retries >= 1
    /\ Len(calls) = retries

\* C3: once call_fmp has ended, every failed attempt that was not the last of
\* the `retries` was logged, followed by exactly one sleep of sleep_time and by
\* another invocation with the same params.
C3_FailedAttemptIsRetried ==
    Ended =>
        \A i \in 1..Len(calls) :
            (Failed(i) /\ i < retries) =>
                /\ \E k \in 1..Len(logged) : logged[k] = calls[i].raised
                /\ Cardinality({k \in 1..Len(sleeps) :
                        sleptAfter[k] = i /\ sleeps[k] = sleep_time}) = 1
                /\ Len(calls) > i
                /\ calls[i + 1].params = calls[i].params

\* C10: a successful invocation is the last one, no sleep follows it, call_fmp
\* does not raise and returns its result; a first attempt that succeeds is the
\* only invocation and there is no sleep at all.
C10_StopsAtFirstSuccess ==
    \A i \in 1..Len(calls) :
        ~Failed(i) =>
            /\ i = Len(calls)
            /\ \A k \in 1..Len(sleptAfter) : sleptAfter[k] < i
            /\ cpc # "raised"
            /\ cpc = "returned" => result = calls[i].returned
            /\ i = 1 => sleeps = <<>>

C10_Witness ==
    /\ cpc = "returned"
    /\ Len(calls) = 1
    /\ ~Failed(1)
    /\ result = calls[1].returned
    /\ sleeps = <<>>

Range(f) == {f[i] : i \in DOMAIN f}

EntriesOf(mapping, s) == {k \in 1..Len(mapping) : mapping[k].symbol = s}

\* The invocations that returned something for the symbol s.
ReturnedFor(s) ==
    {i \in 1..Len(calls) : calls[i].params.symbol = s /\ ~Failed(i)}

Last(S) == CHOOSE i \in S : \A j \in S : j <= i

\* C4 as stated: when get_stocks_history returns, the mapping has exactly one
\* entry per symbol of the list, holding the records returned for it.
C4_OneEntryPerSymbol ==
    pc = "convert" =>
        \A s \in Range(stocks) :
            /\ Cardinality(EntriesOf(raw_data, s)) = 1
            /\ \A k \in EntriesOf(raw_data, s) :
                  raw_data[k].historical = calls[Last(ReturnedFor(s))].returned.historical

\* The invocations that returned a non-empty response for the symbol s.
AnsweredFor(s) == {i \in ReturnedFor(s) : calls[i].returned.kind # "empty"}

\* C4 as amended: when get_stocks_history returns, the mapping has exactly one
\* entry per symbol of the list that got a non-empty response, holding the
\* 'historical' records of the last such response, and no other entry.
C4_OneEntryPerAnsweredSymbol ==
    pc = "convert" =>
        \A s \in Symbols :
            IF s \in Range(stocks) /\ AnsweredFor(s) # {}
               THEN /\ Cardinality(EntriesOf(raw_data, s)) = 1
                    /\ \A k \in EntriesOf(raw_data, s) :
                          raw_data[k].historical =
                              calls[Last(AnsweredFor(s))].returned.historical
               ELSE EntriesOf(raw_data, s) = {}

C4_Witness ==
    /\ pc = "convert"
    /\ Len(stocks) = 2
    /\ stocks[1] # stocks[2]
    /\ calls[1].returned.kind = "empty"
    /\ Len(raw_data) = 1
    /\ raw_data[1].symbol = stocks[2]
    /\ raw_data[1].historical # <<>>

\* C5: once call_fmp has raised in get_stocks_history, the run goes nowhere but
\* to the end by that exception: no mapping is returned, the failed fetch stays
\* the last one, and no writer is written.
C5_FailureAbortsBatch ==
    raised # NoError =>
        /\ pc \in {"gsh_call", "raised"}
        /\ pc = "raised" => error = raised
        /\ raw_data = <<>>
        /\ calls # <<>> /\ Failed(Len(calls))
        /\ ix < Len(stocks) /\ calls[Len(calls)].params.symbol = stocks[ix + 1]
        /\ Len(calls) = ix + 1
        /\ asset_db = <<>>
        /\ daily_bars = <<>>
        /\ adjustments = <<>>

C5_Witness ==
    /\ pc = "raised"
    /\ raised # NoError
    /\ error = raised
    /\ Len(stocks) = 3
    /\ ix = 1
    /\ hist # <<>>
    /\ Len(calls) = 2

\* C9: every call of adjustment_writer.write has a splits table and a
\* dividends table of zero rows.
C9_AdjustmentsEmpty ==
    \A k \in 1..Len(adjustments) :
        /\ Len(adjustments[k].splits) = 0
        /\ Len(adjustments[k].dividends) = 0

C9_Witness ==
    /\ pc = "done"
    /\ Len(adjustments) = 1
    /\ Len(raw_data_df) >= 2
    /\ daily_bars # <<>>

SessionSet(start, end) == {d \in TradingDays : start <= d /\ d <= end}

\* C6: the table _set_dates_for_calendar returns has N x M rows, exactly one
\* for each pair of a session in [start, end] and a symbol of symbol_map.
C6_OneRowPerSessionAndSymbol ==
    fn_op = "set_dates" =>
        /\ Len(fn_out) = Cardinality(SessionSet(fn_start, fn_end)) * Len(fn_symbol_map)
        /\ \A d \in SessionSet(fn_start, fn_end), k \in 1..Len(fn_symbol_map) :
              Cardinality({j \in 1..Len(fn_out) :
                  fn_out[j].date = d /\ fn_out[j].symbol = fn_symbol_map[k]}) = 1

\* A table with a pair twice, a day that is no session and a pair that is missing.
C6_Witness ==
    /\ fn_op = "set_dates"
    /\ Len(fn_out) = 4
    /\ \E i, j \in 1..Len(fn_table) : i < j /\ SameIndex(fn_table[i], fn_table[j])
    /\ \E i \in 1..Len(fn_table) : fn_table[i].date \notin TradingDays
    /\ \E j \in 1..Len(fn_out) : fn_out[j].close = NaN
    /\ \E j \in 1..Len(fn_out) : fn_out[j].close # NaN

SymbolsOf(data) == {data[i].symbol : i \in 1..Len(data)}

\* C7: gen_asset_metadata returns one row per distinct symbol, with the
\* earliest and the latest date of the symbol, the exchange tag, and the day
\* after the latest date as auto_close_date.
C7_OneMetadataRowPerSymbol ==
    fn_op = "metadata" =>
        /\ Len(fn_out) = Cardinality(SymbolsOf(fn_table))
        /\ \A s \in SymbolsOf(fn_table) :
              /\ Cardinality({k \in 1..Len(fn_out) : fn_out[k].symbol = s}) = 1
              /\ \A k \in 1..Len(fn_out) :
                    fn_out[k].symbol = s =>
                        /\ fn_out[k].start_date \in DatesOf(fn_table, s)
                        /\ \A d \in DatesOf(fn_table, s) : fn_out[k].start_date <= d
                        /\ fn_out[k].end_date \in DatesOf(fn_table, s)
                        /\ \A d \in DatesOf(fn_table, s) : d <= fn_out[k].end_date
                        /\ fn_out[k].exchange = fn_exchange
                        /\ fn_out[k].auto_close_date = fn_out[k].end_date + 1

C7_Witness ==
    /\ fn_op = "metadata"
    /\ Len(fn_out) = 2
    /\ Len(fn_table) = 3
    /\ \E k \in 1..Len(fn_out) : fn_out[k].start_date < fn_out[k].end_date

NoDuplicate(t) == \A i, j \in 1..Len(t) : SameIndex(t[i], t[j]) => i = j

\* C8: deduplicating a deduplicated table changes nothing: the second run
\* returns the result of the first, which has every pair at most once, and a
\* table that has every pair at most once is returned as it is.
C8_DedupIdempotent ==
    fn_op = "dedup" =>
        /\ fn_out.twice = fn_out.once
        /\ NoDuplicate(fn_out.once)
        /\ NoDuplicate(fn_table) => fn_out.once = fn_table

C8_Witness ==
    /\ fn_op = "dedup"
    /\ Len(fn_table) = 3
    /\ Len(fn_out.once) = 2
    /\ fn_out.twice = fn_out.once
    /\ SameIndex(fn_table[1], fn_table[3])
    /\ fn_out.once[1] = fn_table[1]

====
